---------------------------- MODULE Spec2Model ----------------------------
(***************************************************************************)
(* Recording-and-export pipeline of Stepik-Studio.                         *)
(*                                                                         *)
(*   SpecRec  : ServerCameraRecorder (video_recorders/camera_recorder.py)  *)
(*              with the capture processes, the process client and the    *)
(*              delayed task scheduler it drives.                          *)
(*   FairRec  : SpecRec with a fair delayed task scheduler.                *)
(*   SpecRace : the recorder with two threads that call start_recording    *)
(*              and may be switched between its liveness check and launch. *)
(*   SpecAgg  : the file hierarchy aggregator                              *)
(*              (postprocessing/exporting/__init__.py), applied to the     *)
(*              SubSteps of a Step drawn from bounded sets.                *)
(*   SpecHier : the same, applied to a Course and to its Lessons.          *)
(*   SpecBld  : PPROCommandBuilder, driven by any sequence of its methods. *)
(*   SpecExp  : export_obj_to_prproj, called once in an environment drawn  *)
(*              from bounded sets.                                         *)
(*                                                                         *)
(* Command text is a sequence of pieces: the literal pieces of the format  *)
(* strings of the source and the values put between them.                  *)
(***************************************************************************)
EXTENDS Integers, Sequences, FiniteSets, TLC

VARIABLES
    process,              \* self.__process: 0 is None, else an index of procs
    last_processed_path,  \* self.last_processed_path
    last_processed_file,  \* self.last_processed_file
    procs,                \* every capture process launched so far
    tasks,                \* TaskManager: the scheduled, not yet run, kills
    lastCall,             \* the manager call that has just returned: its
                          \* result and the collaborators it called (NoCall
                          \* once a process or the scheduler has moved on)
    callers               \* the threads calling start_recording without
                          \* serialization: where each one is in the method

VARIABLES
    substeps,             \* SubStep.objects.filter(from_step=...)
                          \*     .order_by('start_time'), as a sequence
    aggOut,               \* <<what get_target_step_files returned>>, and <<>>
                          \* before it is called
    course_obj,           \* a Course: its directory, and its Lessons with
                          \* their directories and Steps, in start_time order
    hierOut               \* <<what get_target_lesson_files or
                          \* get_target_course_files returned, and for
                          \* which object>>, and <<>> before the call

VARIABLES
    builder,              \* a PPROCommandBuilder: base_command,
                          \* script_to_include, and exc, the exception the
                          \* latest call raised (None: it returned)
    builder_log           \* the calls made on it so far

VARIABLES
    env,                  \* what export_obj_to_prproj finds: settings, files
                          \* on disk, running processes, its collaborators
    exported              \* <<how export_obj_to_prproj ended>>, and <<>>
                          \* before it is called

recVars == <<process, last_processed_path, last_processed_file, procs, tasks,
             lastCall, callers>>

aggVars == <<substeps, aggOut, course_obj, hierOut>>

bldVars == <<builder, builder_log>>

expVars == <<env, exported>>

vars == <<recVars, aggVars, bldVars, expVars>>

(***************************************************************************)
(* Bounds                                                                  *)
(***************************************************************************)
MaxLaunch == 2

MaxTasks == 2

MaxSubSteps == 2

MaxOps == 4

MaxSteps == 2

MaxLessons == 2

\* The recordings asked for: a folder and a file name in it.
Targets == {<<"p1", "f1">>, <<"p2", "f2">>}

None == "None"

SUCCESS == "SUCCESS"

FATAL_ERROR == "FATAL_ERROR"

(***************************************************************************)
(* The components before their first call                                  *)
(***************************************************************************)
NoCall == [op |-> "none", flip |-> 0, status |-> "None", events |-> <<>>,
           idle |-> 0]

\* the threads that call start_recording
Callers == {1, 2}

\* no thread is inside start_recording
NoCallers == [c \in Callers |-> [pc |-> "out", path |-> None,
                                 filename |-> None]]

\* the recorder before its first call
RecIdle ==
    /\ process = 0
    /\ last_processed_path = None
    /\ last_processed_file = None
    /\ procs = <<>>
    /\ tasks = <<>>
    /\ lastCall = NoCall
    /\ callers = NoCallers

\* the aggregator before its first call, with nothing to walk
AggIdle == /\ substeps = <<>> /\ aggOut = <<>>
           /\ course_obj = <<>> /\ hierOut = <<>>

\* The calls made on a builder: their number (ops), the latest one (last),
\* the statements the append methods added, in order (appended), the places
\* of the append_script_including calls among the calls (include_at), the
\* number of build() calls (builds) and <<the text the latest one returned>>.
NewLog == [appended |-> <<>>, include_at |-> <<>>, builds |-> 0, ops |-> 0,
           last |-> "new", built |-> <<>>]

BldIdle == builder = <<>> /\ builder_log = NewLog

\* no export asked for
ExpIdle == env = <<>> /\ exported = <<>>

(***************************************************************************)
(* camera_recorder.py                                                      *)
(***************************************************************************)
KILL_DELAY == 3

\* Popen.poll() is None: the process has not exited (a process that has
\* received the quit signal and has not exited yet still polls None).
Alive(p) == p.st \in {"running", "signalled"}

LivePids == {procs[i].pid : i \in {j \in 1..Len(procs) : Alive(procs[j])}}

\* The identifiers the operating system can give the next process: one never
\* used (the n-th process launched brings identifier n into use) or one of
\* a process that is gone.
Pids == ({Len(procs) + 1} \cup {procs[i].pid : i \in 1..Len(procs)}) \ LivePids

is_active_no_poll == process # 0

is_active == process # 0 /\ Alive(procs[process])

\* The record of one manager call: what was called, what it returned and the
\* collaborators it called; idle counts the stop calls in a row, this one
\* included, that found nothing to stop (counted up to 2).
Call(op, status, events) ==
    [op |-> op, flip |-> 1 - lastCall.flip, status |-> status,
     events |-> events,
     idle |-> IF op = "stop" /\ events = <<>>
              THEN (IF lastCall.idle < 2 THEN lastCall.idle + 1 ELSE 2)
              ELSE 0]

\* FileSystemClient.execute_command(command, stdin=PIPE): the launch succeeds,
\* giving a process object with an identifier no live process holds, or fails,
\* giving a fatal result and no process object.
execute_command_ok(path, filename, pid) ==
    /\ Len(procs) < MaxLaunch
    /\ pid \in Pids
    /\ procs' = Append(procs, [pid |-> pid, st |-> "running",
                               stopped |-> FALSE])

start_recording_no_check(path, filename) ==
    \/ \E pid \in 1..MaxLaunch :
          /\ execute_command_ok(path, filename, pid)
          /\ process' = Len(procs) + 1
          /\ last_processed_file' = filename
          /\ last_processed_path' = path
          /\ tasks' = tasks
          /\ lastCall' = Call("start", SUCCESS,
                              <<<<"execute_command", path, filename>>>>)
    \/ /\ process' = 0
       /\ UNCHANGED <<last_processed_path, last_processed_file, procs, tasks>>
       /\ lastCall' = Call("start", FATAL_ERROR,
                           <<<<"execute_command", path, filename>>>>)

\* path and filename recorded before the result of the launch is looked at
start_recording_record_always(path, filename) ==
    IF is_active
    THEN /\ lastCall' = Call("start", FATAL_ERROR, <<>>)
         /\ UNCHANGED <<process, last_processed_path, last_processed_file,
                        procs, tasks>>
    ELSE \/ \E pid \in 1..MaxLaunch :
               /\ execute_command_ok(path, filename, pid)
               /\ process' = Len(procs) + 1
               /\ last_processed_file' = filename
               /\ last_processed_path' = path
               /\ tasks' = tasks
               /\ lastCall' = Call("start", SUCCESS,
                                   <<<<"execute_command", path, filename>>>>)
         \/ /\ process' = 0
            /\ last_processed_file' = filename
            /\ last_processed_path' = path
            /\ UNCHANGED <<procs, tasks>>
            /\ lastCall' = Call("start", FATAL_ERROR,
                                <<<<"execute_command", path, filename>>>>)

start_recording(path, filename) ==
    IF is_active
    THEN /\ lastCall' = Call("start", FATAL_ERROR, <<>>)
         /\ UNCHANGED <<process, last_processed_path, last_processed_file,
                        procs, tasks>>
    ELSE \/ \E pid \in 1..MaxLaunch :
               /\ execute_command_ok(path, filename, pid)
               /\ process' = Len(procs) + 1
               /\ last_processed_file' = filename
               /\ last_processed_path' = path
               /\ tasks' = tasks
               /\ lastCall' = Call("start", SUCCESS,
                                   <<<<"execute_command", path, filename>>>>)
         \/ /\ process' = 0
            /\ UNCHANGED <<last_processed_path, last_processed_file, procs,
                           tasks>>
            /\ lastCall' = Call("start", FATAL_ERROR,
                                <<<<"execute_command", path, filename>>>>)

\* TaskManager().run_with_delay(FileSystemClient.kill_process, [pid], delay)
run_with_delay(pid, delay) == Append(tasks, [pid |-> pid, left |-> delay])

QuitEvent == <<"send_quit_signal", process>>

KillEvent == <<"run_with_delay", "kill_process", procs[process].pid, KILL_DELAY>>

PipeEvent == <<"_apply_pipe", last_processed_path, last_processed_file>>

\* the handle of the process that is gone is kept
stop_recording_idle_keep ==
    /\ UNCHANGED <<process, last_processed_path, last_processed_file, procs,
                   tasks>>
    /\ lastCall' = Call("stop", SUCCESS, <<>>)

stop_recording_idle ==
    /\ process' = 0
    /\ UNCHANGED <<last_processed_path, last_processed_file, procs, tasks>>
    /\ lastCall' = Call("stop", SUCCESS, <<>>)

\* send_quit_signal reported success: the signal is delivered
stop_recording_signalled ==
    /\ Len(tasks) < MaxTasks
    /\ tasks' = run_with_delay(procs[process].pid, KILL_DELAY)
    /\ procs' = [procs EXCEPT ![process].st = "signalled",
                              ![process].stopped = TRUE]
    /\ process' = 0
    /\ UNCHANGED <<last_processed_path, last_processed_file>>
    /\ lastCall' = Call("stop", SUCCESS,
                        <<QuitEvent, KillEvent, PipeEvent>>)

\* send_quit_signal reported failure: nothing is delivered
stop_recording_signal_failed ==
    /\ Len(tasks) < MaxTasks
    /\ tasks' = run_with_delay(procs[process].pid, KILL_DELAY)
    /\ procs' = [procs EXCEPT ![process].stopped = TRUE]
    /\ UNCHANGED <<process, last_processed_path, last_processed_file>>
    /\ lastCall' = Call("stop", FATAL_ERROR,
                        <<QuitEvent, KillEvent>>)

\* the forced kill scheduled only when the quit signal could not be sent
stop_recording_kill_on_failure ==
    IF ~is_active
    THEN stop_recording_idle
    ELSE \/ /\ procs' = [procs EXCEPT ![process].st = "signalled",
                                       ![process].stopped = TRUE]
            /\ process' = 0
            /\ UNCHANGED <<last_processed_path, last_processed_file, tasks>>
            /\ lastCall' = Call("stop", SUCCESS, <<QuitEvent, PipeEvent>>)
         \/ stop_recording_signal_failed

\* the forced kill scheduled only once the quit signal has been sent
stop_recording_kill_on_success ==
    IF ~is_active
    THEN stop_recording_idle
    ELSE \/ stop_recording_signalled
         \/ /\ procs' = [procs EXCEPT ![process].stopped = TRUE]
            /\ UNCHANGED <<process, last_processed_path, last_processed_file,
                           tasks>>
            /\ lastCall' = Call("stop", FATAL_ERROR, <<QuitEvent>>)

\* the post-processing pipeline run whatever the quit signal reports
stop_recording_pipe_always ==
    IF ~is_active
    THEN stop_recording_idle
    ELSE \/ stop_recording_signalled
         \/ /\ Len(tasks) < MaxTasks
            /\ tasks' = run_with_delay(procs[process].pid, KILL_DELAY)
            /\ procs' = [procs EXCEPT ![process].stopped = TRUE]
            /\ UNCHANGED <<process, last_processed_path, last_processed_file>>
            /\ lastCall' = Call("stop", FATAL_ERROR,
                                <<QuitEvent, KillEvent, PipeEvent>>)

\* the handle dropped whatever the quit signal reports
stop_recording_clear_always ==
    IF ~is_active
    THEN stop_recording_idle
    ELSE \/ stop_recording_signalled
         \/ /\ Len(tasks) < MaxTasks
            /\ tasks' = run_with_delay(procs[process].pid, KILL_DELAY)
            /\ procs' = [procs EXCEPT ![process].stopped = TRUE]
            /\ process' = 0
            /\ UNCHANGED <<last_processed_path, last_processed_file>>
            /\ lastCall' = Call("stop", FATAL_ERROR,
                                <<QuitEvent, KillEvent>>)

stop_recording ==
    IF ~is_active
    THEN stop_recording_idle
    ELSE stop_recording_signalled \/ stop_recording_signal_failed

(***************************************************************************)
(* The environment of the recorder: capture processes and the scheduler    *)
(***************************************************************************)
\* A capture process exits: on its own, or after the quit signal.
ProcExit(i) ==
    /\ Alive(procs[i])
    /\ procs' = [procs EXCEPT ![i].st = "exited"]
    /\ lastCall' = NoCall
    /\ UNCHANGED <<process, last_processed_path, last_processed_file, tasks>>
    /\ UNCHANGED <<callers, aggVars, bldVars, expVars>>

\* One time unit passes for every scheduled task.
Tick ==
    /\ \E k \in 1..Len(tasks) : tasks[k].left > 0
    /\ tasks' = [k \in 1..Len(tasks) |->
                    IF tasks[k].left > 0
                    THEN [tasks[k] EXCEPT !.left = @ - 1] ELSE tasks[k]]
    /\ lastCall' = NoCall
    /\ UNCHANGED <<process, last_processed_path, last_processed_file, procs>>
    /\ UNCHANGED <<callers, aggVars, bldVars, expVars>>

RemoveAt(s, k) == SubSeq(s, 1, k - 1) \o SubSeq(s, k + 1, Len(s))

\* FileSystemClient.kill_process(pid): whatever live process holds pid dies.
kill_process(pid) ==
    [i \in 1..Len(procs) |->
        IF procs[i].pid = pid /\ Alive(procs[i])
        THEN [procs[i] EXCEPT !.st = "killed"] ELSE procs[i]]

\* The delay of task k has elapsed and the scheduler runs it.
FireKill(k) ==
    /\ k \in 1..Len(tasks)
    /\ tasks[k].left = 0
    /\ procs' = kill_process(tasks[k].pid)
    /\ tasks' = RemoveAt(tasks, k)
    /\ lastCall' = NoCall
    /\ UNCHANGED <<process, last_processed_path, last_processed_file>>
    /\ UNCHANGED <<callers, aggVars, bldVars, expVars>>

(***************************************************************************)
(* exporting/__init__.py: the file hierarchy aggregator                    *)
(***************************************************************************)
Names == {"A", "B"}

\* what get_sync_offset can return
Offsets == {-50, 0, 120}

\* models.SubStep, as far as the aggregator reads it
SubSteps == [name : Names, is_videos_ok : BOOLEAN,
             screencast_on_disk : BOOLEAN,  \* isfile(os_screencast_path)
             camera_on_disk : BOOLEAN,      \* isfile(os_path)
             sync_offset : Offsets]

SeqsUpTo(S, n) == UNION {[1..k -> S] : k \in 0..n}

screencast_name(substep) == "screen" \o substep.name

camera_recording_name(substep) == "prof" \o substep.name

get_sync_offset(substep) == substep.sync_offset

\* the frame-change timestamps of a screencast, a function of the file
get_diff_times(substep) == IF substep.name = "A" THEN <<>> ELSE <<3, 9>>

\* the offset kept with its sign
abs_signed(x) == x

abs(x) == IF x < 0 THEN -x ELSE x

\* A Python dict: its items in insertion order.
DictKeys(d) == {d[i][1] : i \in 1..Len(d)}

DictHas(d, key) == \E i \in 1..Len(d) : d[i][1] = key

DictGet(d, key) == d[CHOOSE i \in 1..Len(d) : d[i][1] = key][2]

\* d[key] = val
DictSet(d, key, val) ==
    IF DictHas(d, key)
    THEN [i \in 1..Len(d) |-> IF d[i][1] = key THEN <<key, val>> ELSE d[i]]
    ELSE Append(d, <<key, val>>)

EmptyFiles == [screen_files |-> <<>>, prof_files |-> <<>>,
               marker_times |-> <<>>, sync_offsets |-> <<>>]

\* the offset goes to the screencast also when it is zero
step_body_zero_to_screen(acc, substep) ==
    IF /\ substep.is_videos_ok
       /\ substep.screencast_on_disk
       /\ substep.camera_on_disk
    THEN [screen_files |-> Append(acc.screen_files, screencast_name(substep)),
          prof_files |-> Append(acc.prof_files, camera_recording_name(substep)),
          marker_times |-> DictSet(acc.marker_times, screencast_name(substep),
                                   get_diff_times(substep)),
          sync_offsets |->
              IF get_sync_offset(substep) >= 0
              THEN DictSet(acc.sync_offsets, screencast_name(substep),
                           get_sync_offset(substep))
              ELSE DictSet(acc.sync_offsets, camera_recording_name(substep),
                           abs(get_sync_offset(substep)))]
    ELSE acc

\* the camera recording is not looked for on disk
step_body_no_camera_test(acc, substep) ==
    IF /\ substep.is_videos_ok
       /\ substep.screencast_on_disk
    THEN [screen_files |-> Append(acc.screen_files, screencast_name(substep)),
          prof_files |-> Append(acc.prof_files, camera_recording_name(substep)),
          marker_times |-> DictSet(acc.marker_times, screencast_name(substep),
                                   get_diff_times(substep)),
          sync_offsets |->
              IF get_sync_offset(substep) > 0
              THEN DictSet(acc.sync_offsets, screencast_name(substep),
                           get_sync_offset(substep))
              ELSE DictSet(acc.sync_offsets, camera_recording_name(substep),
                           abs(get_sync_offset(substep)))]
    ELSE acc

\* one pass of the loop of get_target_step_files
step_body(acc, substep) ==
    IF /\ substep.is_videos_ok
       /\ substep.screencast_on_disk
       /\ substep.camera_on_disk
    THEN [screen_files |-> Append(acc.screen_files, screencast_name(substep)),
          prof_files |-> Append(acc.prof_files, camera_recording_name(substep)),
          marker_times |-> DictSet(acc.marker_times, screencast_name(substep),
                                   get_diff_times(substep)),
          sync_offsets |->
              IF get_sync_offset(substep) > 0
              THEN DictSet(acc.sync_offsets, screencast_name(substep),
                           get_sync_offset(substep))
              ELSE DictSet(acc.sync_offsets, camera_recording_name(substep),
                           abs(get_sync_offset(substep)))]
    ELSE acc

RECURSIVE get_target_step_files(_)
get_target_step_files(subs) ==
    IF subs = <<>>
    THEN EmptyFiles
    ELSE step_body(get_target_step_files(SubSeq(subs, 1, Len(subs) - 1)),
                   subs[Len(subs)])

\* get_target_step_files(step_obj) is called and returns
ExtractStep ==
    /\ aggOut = <<>>
    /\ aggOut' = <<get_target_step_files(substeps)>>
    /\ UNCHANGED <<substeps, course_obj, hierOut, recVars, bldVars, expVars>>

InitAgg ==
    /\ RecIdle /\ BldIdle /\ ExpIdle
    /\ substeps \in SeqsUpTo(SubSteps, MaxSubSteps)
    /\ aggOut = <<>>
    /\ course_obj = <<>> /\ hierOut = <<>>

NextAgg == ExtractStep

SpecAgg == InitAgg /\ [][NextAgg]_vars

(***************************************************************************)
(* exporting/__init__.py: Lessons and Courses                              *)
(***************************************************************************)
\* a Step with two valid SubSteps, A (+120) and B (-50)
StepAB ==
    << [name |-> "A", is_videos_ok |-> TRUE, screencast_on_disk |-> TRUE,
        camera_on_disk |-> TRUE, sync_offset |-> 120],
       [name |-> "B", is_videos_ok |-> TRUE, screencast_on_disk |-> TRUE,
        camera_on_disk |-> TRUE, sync_offset |-> -50] >>

\* a Step with a valid SubStep C (0) and a SubStep D flagged valid whose
\* camera recording is not on disk
StepCD ==
    << [name |-> "C", is_videos_ok |-> TRUE, screencast_on_disk |-> TRUE,
        camera_on_disk |-> TRUE, sync_offset |-> 0],
       [name |-> "D", is_videos_ok |-> TRUE, screencast_on_disk |-> TRUE,
        camera_on_disk |-> FALSE, sync_offset |-> 120] >>

\* Step.objects.filter(from_lesson=...): each Step is given by its SubSteps
Steps == {StepAB, StepCD}

\* models.Lesson: isdir(os_path) and its Steps in start_time order
Lessons == [dir_on_disk : BOOLEAN, steps : SeqsUpTo(Steps, MaxSteps)]

\* models.Course: isdir(os_path) and its Lessons in start_time order
Courses == [dir_on_disk : BOOLEAN, lessons : SeqsUpTo(Lessons, MaxLessons)]

\* list.extend(more)
extend(list, more) == list \o more

\* the dict replaced by the other one
update_replace(d, other) == other

\* dict.update(other)
RECURSIVE update(_, _)
update(d, other) ==
    IF other = <<>> THEN d
    ELSE update(DictSet(d, other[1][1], other[1][2]), Tail(other))

\* The four structures of a Lesson or Course walk before its loop, with the
\* database queries made so far (queried), which the walk carries along.
Walk(queried) ==
    [screen_files |-> <<>>, prof_files |-> <<>>, marker_times |-> <<>>,
     sync_offsets |-> <<>>, queried |-> queried]

\* the four structures returned, without the queries made
Files(out) == [screen_files |-> out.screen_files,
               prof_files |-> out.prof_files,
               marker_times |-> out.marker_times,
               sync_offsets |-> out.sync_offsets]

\* what one pass of the loop of get_target_step_files has computed for
\* the SubStep
step_calls(substep) ==
    IF /\ substep.is_videos_ok
       /\ substep.screencast_on_disk
       /\ substep.camera_on_disk
    THEN <<"get_sync_offset " \o substep.name,
           "get_diff_times " \o substep.name>>
    ELSE <<>>

\* what get_target_step_files has computed, in order
RECURSIVE get_target_step_calls(_)
get_target_step_calls(subs) ==
    IF subs = <<>> THEN <<>>
    ELSE step_calls(subs[1]) \o get_target_step_calls(Tail(subs))

\* one pass of the loop of get_target_lesson_files
lesson_body(acc, step) ==
    LET step_files == get_target_step_files(step)
    IN  [screen_files |-> extend(acc.screen_files, step_files.screen_files),
         prof_files |-> extend(acc.prof_files, step_files.prof_files),
         marker_times |-> update(acc.marker_times, step_files.marker_times),
         sync_offsets |-> update(acc.sync_offsets, step_files.sync_offsets),
         queried |-> Append(acc.queried, "SubStep.objects.filter")
                         \o get_target_step_calls(step)]

RECURSIVE lesson_loop(_, _)
lesson_loop(acc, steps) ==
    IF steps = <<>> THEN acc
    ELSE lesson_loop(lesson_body(acc, steps[1]), Tail(steps))

\* the Steps are walked whether the directory of the Lesson is there or not
get_target_lesson_files_no_isdir(lesson_obj) ==
    lesson_loop(Walk(<<"Step.objects.filter">>), lesson_obj.steps)

get_target_lesson_files(lesson_obj) ==
    IF lesson_obj.dir_on_disk
    THEN lesson_loop(Walk(<<"Step.objects.filter">>), lesson_obj.steps)
    ELSE Walk(<<>>)

\* one pass of the loop of get_target_course_files
course_body(acc, lesson) ==
    LET lesson_files == get_target_lesson_files(lesson)
    IN  [screen_files |-> extend(acc.screen_files, lesson_files.screen_files),
         prof_files |-> extend(acc.prof_files, lesson_files.prof_files),
         marker_times |-> update(acc.marker_times, lesson_files.marker_times),
         sync_offsets |-> update(acc.sync_offsets, lesson_files.sync_offsets),
         queried |-> acc.queried \o lesson_files.queried]

RECURSIVE course_loop(_, _)
course_loop(acc, lessons) ==
    IF lessons = <<>> THEN acc
    ELSE course_loop(course_body(acc, lessons[1]), Tail(lessons))

get_target_course_files(course) ==
    IF course.dir_on_disk
    THEN course_loop(Walk(<<"Lesson.objects.filter">>), course.lessons)
    ELSE Walk(<<>>)

\* get_target_step_files(step_obj) is called for a Step of the Course
ExtractStepOf ==
    /\ hierOut = <<>>
    /\ \E i \in 1..Len(course_obj.lessons) :
       \E j \in 1..Len(course_obj.lessons[i].steps) :
           LET step == course_obj.lessons[i].steps[j]
               step_files == get_target_step_files(step)
           IN  hierOut' =
                   <<[of |-> "step", at |-> <<i, j>>,
                      out |-> [screen_files |-> step_files.screen_files,
                               prof_files |-> step_files.prof_files,
                               marker_times |-> step_files.marker_times,
                               sync_offsets |-> step_files.sync_offsets,
                               queried |-> <<"SubStep.objects.filter">>
                                   \o get_target_step_calls(step)]]>>
    /\ UNCHANGED <<substeps, aggOut, course_obj, recVars, bldVars, expVars>>

\* get_target_lesson_files(lesson_obj) is called for a Lesson of the Course
ExtractLesson ==
    /\ hierOut = <<>>
    /\ \E i \in 1..Len(course_obj.lessons) :
           hierOut' = <<[of |-> "lesson", at |-> i,
                         out |-> get_target_lesson_files(
                                     course_obj.lessons[i])]>>
    /\ UNCHANGED <<substeps, aggOut, course_obj, recVars, bldVars, expVars>>

\* get_target_course_files(course_obj) is called
ExtractCourse ==
    /\ hierOut = <<>>
    /\ hierOut' = <<[of |-> "course", at |-> 0,
                     out |-> get_target_course_files(course_obj)]>>
    /\ UNCHANGED <<substeps, aggOut, course_obj, recVars, bldVars, expVars>>

InitHier ==
    /\ RecIdle /\ BldIdle /\ ExpIdle
    /\ substeps = <<>> /\ aggOut = <<>>
    /\ course_obj \in Courses
    /\ hierOut = <<>>

NextHier == ExtractStepOf \/ ExtractLesson \/ ExtractCourse

SpecHier == InitHier /\ [][NextHier]_vars

(***************************************************************************)
(* exporting/__init__.py: PPROCommandBuilder                               *)
(***************************************************************************)
\* PPROCommandBuilder(base_command)
NewBuilder(base_command) ==
    [base_command |-> <<base_command, " \"">>, script_to_include |-> <<>>,
     exc |-> None]

\* bool(text) of a Python string: it is not empty
Truthy(text) == \E i \in 1..Len(text) : text[i] # ""

\* str(item), for an item that is a str and for one that is a number
str(item, type) == IF type = "str" THEN item ELSE ToString(item)

\* ', '.join(parts)
RECURSIVE Join(_)
Join(parts) ==
    IF parts = <<>> THEN <<>>
    ELSE IF Len(parts) = 1 THEN parts[1]
    ELSE parts[1] \o <<", ">> \o Join(Tail(parts))

\* the empty list becomes null
list_to_array_null(source_list, item_type) ==
    IF source_list = <<>>
    THEN <<"null">>
    ELSE <<"[">>
         \o Join([i \in 1..Len(source_list) |->
                     <<"'", str(source_list[i], item_type), "'">>])
         \o <<"]">>

\* _list_to_array(source_list), the items of source_list being of item_type
list_to_array(source_list, item_type) ==
    IF source_list = <<>>
    THEN <<"[]">>
    ELSE <<"[">>
         \o Join([i \in 1..Len(source_list) |->
                     <<"'", str(source_list[i], item_type), "'">>])
         \o <<"]">>

append_opening_document(self, path) ==
    [self EXCEPT !.base_command =
                    @ \o <<"app.openDocument(", "'", path, "'", ");">>]

IncludeText(path) == <<" //@include '", path, "'">>

\* the directive put into the command at once
append_script_including_at_once(self, path) ==
    IF Truthy(self.script_to_include)
    THEN [self EXCEPT !.exc = "Command already contains script including"]
    ELSE [self EXCEPT !.base_command = @ \o IncludeText(path),
                      !.script_to_include = IncludeText(path)]

\* the path, not the directive, tested for a script recorded before
append_script_including_path_test(self, path) ==
    IF self.script_to_include # <<>> /\ self.script_to_include[2] # ""
    THEN [self EXCEPT !.exc = "Command already contains script including"]
    ELSE [self EXCEPT !.script_to_include = IncludeText(path)]

append_script_including(self, path) ==
    IF Truthy(self.script_to_include)
    THEN [self EXCEPT !.exc = "Command already contains script including"]
    ELSE [self EXCEPT !.script_to_include = IncludeText(path)]

append_eval_file(self, path) ==
    [self EXCEPT !.base_command = @ \o <<" $.evalFile(\"", path, "\");">>]

\* the statement put in front of the ones appended before
append_string_const_in_front(self, const_name, const_value) ==
    [self EXCEPT !.base_command =
                    <<" const ", const_name, " = '", const_value, "';">> \o @]

append_string_const(self, const_name, const_value) ==
    [self EXCEPT !.base_command =
                    @ \o <<" const ", const_name, " = '", const_value, "';">>]

append_const_array(self, const_name, const_values) ==
    [self EXCEPT !.base_command =
                    @ \o <<" const ", const_name, " = ">>
                      \o list_to_array(const_values, "str")
                      \o <<";">>]

\* str(bool_value).lower()
str_bool(bool_value) == IF bool_value THEN "True" ELSE "False"

lower(text) == CASE text = "True" -> "true"
                 [] text = "False" -> "false"
                 [] OTHER -> text

append_bool_value(self, bool_name, bool_value) ==
    [self EXCEPT !.base_command =
                    @ \o <<" var ", bool_name, " = Boolean(",
                           lower(str_bool(bool_value)), ");">>]

\* source_dict is a sequence of <<key, value>>, in the order of items()
append_dict(self, name, source_dict, val_type) ==
    LET data ==
          IF val_type = "list"
          THEN Join([i \in 1..Len(source_dict) |->
                       <<"'", source_dict[i][1], "': ">>
                       \o list_to_array(source_dict[i][2], "float")])
          ELSE Join([i \in 1..Len(source_dict) |->
                       <<"'", source_dict[i][1], "': ",
                         str(source_dict[i][2], "float")>>])
    IN  [self EXCEPT !.base_command =
                        @ \o <<" var ", name, " = {">> \o data \o <<"};">>]

\* build(): the builder it leaves and the text it returns
build(self) ==
    LET base == IF Truthy(self.script_to_include)
                THEN self.base_command \o self.script_to_include
                ELSE self.base_command
    IN  [self |-> [self EXCEPT !.base_command = base],
         text |-> base \o <<"\"">>]

(***************************************************************************)
(* The builder driven by a caller                                          *)
(***************************************************************************)
BaseCommands == {"ppro.exe /C es.processFile"}

DocPaths == {"t.prproj"}

ScriptPaths == {"", "s.jsx", "u.jsx"}

ConstValues == {"x"}

ArrayValues == {<<>>, <<"a", "b">>}

MarkerDicts == {<<>>, << <<"a", <<>> >>, <<"b", <<3, 9>> >> >>}

OffsetDicts == {<< <<"a", 120>>, <<"b", 50>> >>}

\* the builder as the call finds it: no exception pending
Self == [builder EXCEPT !.exc = None]

Bounded == builder_log.ops < MaxOps

\* an append method returned self
Appended(self) ==
    /\ builder' = self
    /\ builder_log' =
          [builder_log EXCEPT
              !.ops = @ + 1, !.last = "append",
              !.appended = Append(@, SubSeq(self.base_command,
                                            Len(builder.base_command) + 1,
                                            Len(self.base_command)))]
    /\ UNCHANGED <<recVars, aggVars, expVars>>

OpenDocument ==
    /\ Bounded
    /\ \E path \in DocPaths : Appended(append_opening_document(Self, path))

ScriptIncluding ==
    /\ Bounded
    /\ \E path \in ScriptPaths :
          /\ builder' = append_script_including(Self, path)
          /\ builder_log' = [builder_log EXCEPT !.ops = @ + 1,
                                                !.last = "include",
                                                !.include_at =
                                                    Append(@, builder_log.ops + 1)]
    /\ UNCHANGED <<recVars, aggVars, expVars>>

EvalFile ==
    /\ Bounded
    /\ \E path \in ScriptPaths \ {""} : Appended(append_eval_file(Self, path))

StringConst ==
    /\ Bounded
    /\ \E value \in ConstValues :
          Appended(append_string_const(Self, "outputName", value))

ConstArray ==
    /\ Bounded
    /\ \E values \in ArrayValues :
          Appended(append_const_array(Self, "screenVideos", values))

BoolValue ==
    /\ Bounded
    /\ \E value \in BOOLEAN :
          Appended(append_bool_value(Self, "needSync", value))

Dict ==
    /\ Bounded
    /\ \/ \E d \in MarkerDicts :
             Appended(append_dict(Self, "markerTimes", d, "list"))
       \/ \E d \in OffsetDicts :
             Appended(append_dict(Self, "syncOffsets", d, "float"))

Build ==
    /\ Bounded
    /\ builder' = build(Self).self
    /\ builder_log' = [builder_log EXCEPT !.ops = @ + 1, !.last = "build",
                                          !.builds = @ + 1,
                                          !.built = <<build(Self).text>>]
    /\ UNCHANGED <<recVars, aggVars, expVars>>

InitBld ==
    /\ RecIdle /\ AggIdle /\ ExpIdle
    /\ \E base_command \in BaseCommands : builder = NewBuilder(base_command)
    /\ builder_log = NewLog

NextBld == \/ OpenDocument \/ ScriptIncluding \/ EvalFile \/ StringConst
           \/ ConstArray \/ BoolValue \/ Dict \/ Build

SpecBld == InitBld /\ [][NextBld]_vars

(***************************************************************************)
(* exporting/__init__.py: build_ppro_command and export_obj_to_prproj      *)
(*                                                                         *)
(* A path is the sequence of its components; PathStr writes it with a      *)
(* separator.                                                              *)
(***************************************************************************)
PRPROJ_TEMPLATE == "template.prproj"

PRPROJ_REQUIRED_FILE == "extendscriptprqe.txt"

PRPROJ_PRESET == "ppro.sqpreset"

PRPROJ_SCRIPT == "create_deep_structured_project.jsx"

\* os.path.dirname(__file__)
ModuleDir == <<"C:", "studio", "exporting">>

PRPROJ_TEMPLATES_PATH == Append(ModuleDir, "adobe_templates")

PPRO_WIN_PROCESS_NAME == "Adobe Premiere Pro.exe"

\* os.sep where Premiere Pro runs
os_sep == "\\"

RECURSIVE PathStr(_, _)
PathStr(path, sep) ==
    IF path = <<>> THEN ""
    ELSE IF Len(path) = 1 THEN path[1]
    ELSE path[1] \o sep \o PathStr(Tail(path), sep)

\* path.replace(os.sep, '\\\\'): every separator becomes two backslashes
replace_sep(path) == PathStr(path, "\\\\")

os_path_dirname(path) == IF path = <<>> THEN <<>>
                         ELSE SubSeq(path, 1, Len(path) - 1)

\* utils.extra.translate_non_alphanumerics, on the names exported here
translate_non_alphanumerics(name) ==
    CASE name = "Lesson 1" -> "Lesson_1"
      [] OTHER -> name

Raised(message) == [exc |-> message, command |-> <<>>]

\* e is the environment: e.ADOBE_PPRO_PATH is <<>> for None and <<path>>
\* otherwise, e.template_on_disk and e.preset_on_disk are the two isfile tests
build_ppro_command(e, base_path, templates_path, screen_files, prof_files, marker_times, sync_offsets, output_name) ==
    IF e.ADOBE_PPRO_PATH = <<>> \/ e.ADOBE_PPRO_PATH[1] = <<>>
    THEN Raised("Adobe PremierePro configuration is missing.")
    ELSE IF ~e.template_on_disk
    THEN Raised("Template of PremierPro project is missing.")
    ELSE IF ~e.preset_on_disk
    THEN Raised(".sqpreset sequence template file is missing.")
    ELSE
    LET base_command == "\"" \o PathStr(e.ADOBE_PPRO_PATH[1], os_sep) \o "\" "
                             \o e.ADOBE_PPRO_CMD
        prproj_template_path == Append(templates_path, PRPROJ_TEMPLATE)
        prproj_preset_path == Append(templates_path, PRPROJ_PRESET)
        script_path == ModuleDir \o <<"adobe_scripts", PRPROJ_SCRIPT>>
        b0 == NewBuilder(base_command)
        b1 == append_opening_document(b0, replace_sep(prproj_template_path))
        b2 == append_string_const(b1, "outputName", output_name)
        b3 == append_string_const(b2, "basePath", replace_sep(base_path))
        b4 == append_string_const(b3, "presetPath",
                                  replace_sep(prproj_preset_path))
        b5 == append_const_array(b4, "screenVideos", screen_files)
        b6 == append_const_array(b5, "professorVideos", prof_files)
        b7 == append_bool_value(b6, "needSync", TRUE)
        b8 == append_dict(b7, "markerTimes", marker_times, "list")
        b9 == append_dict(b8, "syncOffsets", sync_offsets, "float")
        b10 == append_script_including(b9, replace_sep(script_path))
    IN  IF b10.exc # None THEN Raised(b10.exc)
        ELSE [exc |-> None, command |-> build(b10).text]

\* FileSystemClient().execute_command_sync(command, allowable_code): success
\* when the tool exits with 0 or with the allowable code
execute_command_sync(exit_code, allowable_code) ==
    IF exit_code = 0 \/ exit_code = allowable_code
    THEN SUCCESS ELSE FATAL_ERROR

\* an InternalOperationResult returned, after the calls made in order
Returned(status, message, calls) ==
    [raised |-> FALSE, status |-> status, message |-> message, calls |-> calls,
     command |-> <<>>]

\* the same, once command was handed to execute_command_sync
Executed(status, message, calls, command) ==
    [raised |-> FALSE, status |-> status, message |-> message, calls |-> calls,
     command |-> command]

\* an exception left the function
Escaped(message, calls) ==
    [raised |-> TRUE, status |-> None, message |-> message, calls |-> calls,
     command |-> <<>>]

\* the tool's process is looked for once the files have been extracted
export_obj_to_prproj_probe_late(e) ==
    LET calls == <<"isfile", "files_extractor", "process_with_name_exists">>
    IN  IF e.ADOBE_PPRO_PATH = <<>>
        THEN Escaped("TypeError", <<>>)
        ELSE IF ~e.required_file_on_disk
        THEN Returned(FATAL_ERROR, "required file is missing", <<"isfile">>)
        ELSE IF e.extractor.raised
        THEN Escaped("files_extractor", SubSeq(calls, 1, 2))
        ELSE IF e.ppro_running
        THEN Returned(FATAL_ERROR, "Only one instance of PPro may exist.",
                      calls)
        ELSE Returned(FATAL_ERROR, "Object is empty or subitems are broken.",
                      calls)

\* the object taken as empty only when both file lists are
export_obj_to_prproj_both_empty(e) ==
    LET files == e.extractor.files
        built == build_ppro_command(e, e.os_path, PRPROJ_TEMPLATES_PATH,
                     files.screen_files, files.prof_files, files.marker_times,
                     files.sync_offsets, translate_non_alphanumerics(e.name))
        calls == <<"isfile", "process_with_name_exists", "files_extractor",
                   "build_ppro_command", "execute_command_sync">>
    IN  IF e.ADOBE_PPRO_PATH = <<>>
        THEN Escaped("TypeError", <<>>)
        ELSE IF ~e.required_file_on_disk
        THEN Returned(FATAL_ERROR, "required file is missing",
                      SubSeq(calls, 1, 1))
        ELSE IF e.ppro_running
        THEN Returned(FATAL_ERROR, "Only one instance of PPro may exist.",
                      SubSeq(calls, 1, 2))
        ELSE IF e.extractor.raised
        THEN Escaped("files_extractor", SubSeq(calls, 1, 3))
        ELSE IF files.screen_files = <<>> /\ files.prof_files = <<>>
        THEN Returned(FATAL_ERROR, "Object is empty or subitems are broken.",
                      SubSeq(calls, 1, 3))
        ELSE IF built.exc # None
        THEN Returned(FATAL_ERROR, built.exc, SubSeq(calls, 1, 4))
        ELSE IF execute_command_sync(e.exit_code, 1) # SUCCESS
        THEN Executed(FATAL_ERROR, "Cannot execute PPro command.", calls,
                      built.command)
        ELSE Executed(SUCCESS, None, calls, built.command)

\* an exception of build_ppro_command is let through
export_obj_to_prproj_no_catch(e) ==
    LET files == e.extractor.files
        built == build_ppro_command(e, e.os_path, PRPROJ_TEMPLATES_PATH,
                     files.screen_files, files.prof_files, files.marker_times,
                     files.sync_offsets, translate_non_alphanumerics(e.name))
        calls == <<"isfile", "process_with_name_exists", "files_extractor",
                   "build_ppro_command", "execute_command_sync">>
    IN  IF e.ADOBE_PPRO_PATH = <<>>
        THEN Escaped("TypeError", <<>>)
        ELSE IF ~e.required_file_on_disk
        THEN Returned(FATAL_ERROR, "required file is missing",
                      SubSeq(calls, 1, 1))
        ELSE IF e.ppro_running
        THEN Returned(FATAL_ERROR, "Only one instance of PPro may exist.",
                      SubSeq(calls, 1, 2))
        ELSE IF e.extractor.raised
        THEN Escaped("files_extractor", SubSeq(calls, 1, 3))
        ELSE IF files.screen_files = <<>> \/ files.prof_files = <<>>
        THEN Returned(FATAL_ERROR, "Object is empty or subitems are broken.",
                      SubSeq(calls, 1, 3))
        ELSE IF built.exc # None
        THEN Escaped(built.exc, SubSeq(calls, 1, 4))
        ELSE IF execute_command_sync(e.exit_code, 1) # SUCCESS
        THEN Executed(FATAL_ERROR, "Cannot execute PPro command.", calls,
                      built.command)
        ELSE Executed(SUCCESS, None, calls, built.command)

\* no exit code but 0 is taken as a success
export_obj_to_prproj_no_allowable(e) ==
    LET files == e.extractor.files
        built == build_ppro_command(e, e.os_path, PRPROJ_TEMPLATES_PATH,
                     files.screen_files, files.prof_files, files.marker_times,
                     files.sync_offsets, translate_non_alphanumerics(e.name))
        calls == <<"isfile", "process_with_name_exists", "files_extractor",
                   "build_ppro_command", "execute_command_sync">>
    IN  IF e.ADOBE_PPRO_PATH = <<>>
        THEN Escaped("TypeError", <<>>)
        ELSE IF ~e.required_file_on_disk
        THEN Returned(FATAL_ERROR, "required file is missing",
                      SubSeq(calls, 1, 1))
        ELSE IF e.ppro_running
        THEN Returned(FATAL_ERROR, "Only one instance of PPro may exist.",
                      SubSeq(calls, 1, 2))
        ELSE IF e.extractor.raised
        THEN Escaped("files_extractor", SubSeq(calls, 1, 3))
        ELSE IF files.screen_files = <<>> \/ files.prof_files = <<>>
        THEN Returned(FATAL_ERROR, "Object is empty or subitems are broken.",
                      SubSeq(calls, 1, 3))
        ELSE IF built.exc # None
        THEN Returned(FATAL_ERROR, built.exc, SubSeq(calls, 1, 4))
        ELSE IF execute_command_sync(e.exit_code, 0) # SUCCESS
        THEN Executed(FATAL_ERROR, "Cannot execute PPro command.", calls,
                      built.command)
        ELSE Executed(SUCCESS, None, calls, built.command)

export_obj_to_prproj(e) ==
    LET files == e.extractor.files
        built == build_ppro_command(e, e.os_path, PRPROJ_TEMPLATES_PATH,
                     files.screen_files, files.prof_files, files.marker_times,
                     files.sync_offsets, translate_non_alphanumerics(e.name))
        calls == <<"isfile", "process_with_name_exists", "files_extractor",
                   "build_ppro_command", "execute_command_sync">>
    IN  \* os.path.dirname(None)
        IF e.ADOBE_PPRO_PATH = <<>>
        THEN Escaped("TypeError", <<>>)
        ELSE IF ~e.required_file_on_disk
        THEN Returned(FATAL_ERROR, "required file is missing",
                      SubSeq(calls, 1, 1))
        ELSE IF e.ppro_running
        THEN Returned(FATAL_ERROR, "Only one instance of PPro may exist.",
                      SubSeq(calls, 1, 2))
        ELSE IF e.extractor.raised
        THEN Escaped("files_extractor", SubSeq(calls, 1, 3))
        ELSE IF files.screen_files = <<>> \/ files.prof_files = <<>>
        THEN Returned(FATAL_ERROR, "Object is empty or subitems are broken.",
                      SubSeq(calls, 1, 3))
        ELSE IF built.exc # None
        THEN Returned(FATAL_ERROR, built.exc, SubSeq(calls, 1, 4))
        ELSE IF execute_command_sync(e.exit_code, 1) # SUCCESS
        THEN Executed(FATAL_ERROR, "Cannot execute PPro command.", calls,
                      built.command)
        ELSE Executed(SUCCESS, None, calls, built.command)

(***************************************************************************)
(* export_obj_to_prproj called in some environment                         *)
(***************************************************************************)
\* what files_extractor(db_object) can do: raise, or return four structures
ExtractorOutcomes ==
    {[raised |-> TRUE, files |-> EmptyFiles]}
    \cup {[raised |-> FALSE, files |-> f] :
            f \in {EmptyFiles,
                   get_target_step_files(StepAB),
                   [EmptyFiles EXCEPT !.screen_files = <<"screenA">>],
                   [EmptyFiles EXCEPT !.prof_files = <<"profA">>]}}

\* settings.ADOBE_PPRO_PATH: None, '' and a path
PproPaths == {<<>>, << <<>> >>, << <<"C:", "Adobe", "ppro.exe">> >>}

ExitCodes == {-1, 0, 1, 2}

Environments ==
    [ADOBE_PPRO_PATH : PproPaths,
     ADOBE_PPRO_CMD : {"/C es.processFile"},
     required_file_on_disk : BOOLEAN,
     ppro_running : BOOLEAN,
     extractor : ExtractorOutcomes,
     template_on_disk : BOOLEAN,
     preset_on_disk : BOOLEAN,
     exit_code : ExitCodes,
     os_path : {<<"C:", "studio", "Lesson 1">>},
     name : {"Lesson 1"}]

Export ==
    /\ exported = <<>>
    /\ exported' = <<export_obj_to_prproj(env)>>
    /\ UNCHANGED <<env, recVars, aggVars, bldVars>>

InitExp ==
    /\ RecIdle /\ AggIdle /\ BldIdle
    /\ env \in Environments
    /\ exported = <<>>

NextExp == Export

SpecExp == InitExp /\ [][NextExp]_vars

(***************************************************************************)
(* The builder driven by a caller, and by build_ppro_command               *)
(***************************************************************************)
\* the environments in which export_obj_to_prproj gets a command built
CommandEnvs ==
    {e \in Environments :
        /\ e.ADOBE_PPRO_PATH # <<>> /\ e.ADOBE_PPRO_PATH # << <<>> >>
        /\ e.required_file_on_disk /\ ~e.ppro_running
        /\ ~e.extractor.raised
        /\ e.extractor.files.screen_files # <<>>
        /\ e.extractor.files.prof_files # <<>>
        /\ e.template_on_disk /\ e.preset_on_disk
        /\ e.exit_code = 0}

InitCmd ==
    /\ RecIdle /\ AggIdle
    /\ \E base_command \in BaseCommands : builder = NewBuilder(base_command)
    /\ builder_log = NewLog
    /\ env \in CommandEnvs
    /\ exported = <<>>

NextCmd == NextBld \/ NextExp

SpecCmd == InitCmd /\ [][NextCmd]_vars

(***************************************************************************)
(* Specification of the recorder                                           *)
(***************************************************************************)
InitRec == RecIdle /\ AggIdle /\ BldIdle /\ ExpIdle

StartRecording == /\ \E t \in Targets : start_recording(t[1], t[2])
                  /\ UNCHANGED <<callers, aggVars, bldVars, expVars>>

StopRecording == stop_recording /\ UNCHANGED <<callers, aggVars, bldVars, expVars>>

Exit == \E i \in 1..Len(procs) : ProcExit(i)

Fire == \E k \in 1..MaxTasks : FireKill(k)

NextRec == StartRecording \/ StopRecording \/ Exit \/ Tick \/ Fire

SpecRec == InitRec /\ [][NextRec]_vars

(***************************************************************************)
(* start_recording called by threads that are not serialized               *)
(***************************************************************************)
\* lines 31-35 run by thread c: the is_active() test and, when it is true,
\* the return of the fatal result
start_recording_check(c, path, filename) ==
    /\ callers[c].pc = "out"
    /\ IF is_active
       THEN /\ lastCall' = Call("start", FATAL_ERROR, <<>>)
            /\ callers' = callers
       ELSE /\ lastCall' = lastCall
            /\ callers' = [callers EXCEPT ![c] = [pc |-> "checked",
                                                  path |-> path,
                                                  filename |-> filename]]
    /\ UNCHANGED <<process, last_processed_path, last_processed_file, procs,
                   tasks>>

\* is_active() tested once more, next to the launch
start_recording_launch_checked(c) ==
    /\ callers[c].pc = "checked"
    /\ callers' = [callers EXCEPT ![c] = NoCallers[c]]
    /\ IF is_active
       THEN /\ lastCall' = Call("start", FATAL_ERROR, <<>>)
            /\ UNCHANGED <<process, last_processed_path, last_processed_file,
                           procs, tasks>>
       ELSE \/ \E pid \in 1..MaxLaunch :
                  /\ execute_command_ok(callers[c].path, callers[c].filename,
                                        pid)
                  /\ process' = Len(procs) + 1
                  /\ last_processed_file' = callers[c].filename
                  /\ last_processed_path' = callers[c].path
                  /\ tasks' = tasks
                  /\ lastCall' = Call("start", SUCCESS,
                                      <<<<"execute_command", callers[c].path,
                                          callers[c].filename>>>>)
            \/ /\ process' = 0
               /\ UNCHANGED <<last_processed_path, last_processed_file, procs,
                              tasks>>
               /\ lastCall' = Call("start", FATAL_ERROR,
                                   <<<<"execute_command", callers[c].path,
                                       callers[c].filename>>>>)

\* lines 37-48 run by thread c, which has found the session not active
start_recording_launch(c) ==
    /\ callers[c].pc = "checked"
    /\ callers' = [callers EXCEPT ![c] = NoCallers[c]]
    /\ \/ \E pid \in 1..MaxLaunch :
             /\ execute_command_ok(callers[c].path, callers[c].filename, pid)
             /\ process' = Len(procs) + 1
             /\ last_processed_file' = callers[c].filename
             /\ last_processed_path' = callers[c].path
             /\ tasks' = tasks
             /\ lastCall' = Call("start", SUCCESS,
                                 <<<<"execute_command", callers[c].path,
                                     callers[c].filename>>>>)
       \/ /\ process' = 0
          /\ UNCHANGED <<last_processed_path, last_processed_file, procs,
                         tasks>>
          /\ lastCall' = Call("start", FATAL_ERROR,
                              <<<<"execute_command", callers[c].path,
                                  callers[c].filename>>>>)

StartCheck ==
    /\ \E c \in Callers : \E t \in Targets :
           start_recording_check(c, t[1], t[2])
    /\ UNCHANGED <<aggVars, bldVars, expVars>>

StartLaunch ==
    /\ \E c \in Callers : start_recording_launch(c)
    /\ UNCHANGED <<aggVars, bldVars, expVars>>

NextRace == StartCheck \/ StartLaunch \/ StopRecording \/ Exit

SpecRace == InitRec /\ [][NextRace]_vars

FairRec == /\ SpecRec
           /\ WF_vars(Tick)
           /\ \A k \in 1..MaxTasks : WF_vars(FireKill(k))

(***************************************************************************)
(* Claims about the recorder                                               *)
(***************************************************************************)
\* This step is a manager call named op.
IsCall(op) == lastCall'.flip # lastCall.flip /\ lastCall'.op = op

\* The session is Recording: a handle is held and its poll says running.
Recording == process # 0 /\ procs[process].st \in {"running", "signalled"}

\* C1: start_recording on a session that is_active returns FATAL_ERROR,
\* launches nothing and leaves the handle, last_processed_path and
\* last_processed_file as they were.
C1_StartWhileActiveRejected ==
    [][(IsCall("start") /\ Recording) =>
          /\ lastCall'.status = FATAL_ERROR
          /\ lastCall'.events = <<>>
          /\ procs' = procs
          /\ process' = process
          /\ last_processed_path' = last_processed_path
          /\ last_processed_file' = last_processed_file]_vars

C1_Witness ==
    /\ lastCall.op = "start" /\ lastCall.status = FATAL_ERROR
    /\ lastCall.events = <<>>
    /\ process # 0 /\ procs[process].st = "running"

\* C2: stop_recording on an Idle session returns SUCCESS and sends no signal,
\* schedules no kill and runs no post-processing, however often it is repeated.
C2_StopIdleNoInteraction ==
    [][(IsCall("stop") /\ ~Recording) =>
          /\ lastCall'.status = SUCCESS
          /\ lastCall'.events = <<>>
          /\ tasks' = tasks
          /\ procs' = procs]_vars

\* a second stop in a row on an Idle session, with a process launched before
C2_Witness ==
    /\ lastCall.op = "stop" /\ lastCall.idle = 2
    /\ lastCall.status = SUCCESS /\ Len(procs) > 0

\* C3: a stop_recording call on a Recording session schedules exactly one
\* forced kill, of the process identifier held, with delay 3, whatever the
\* quit signal reports.
C3_StopSchedulesOneKill ==
    [][(IsCall("stop") /\ Recording) =>
          /\ tasks' = Append(tasks, [pid |-> procs[process].pid, left |-> 3])
          /\ Len(SelectSeq(lastCall'.events,
                           LAMBDA e : e[1] = "run_with_delay")) = 1
          /\ lastCall'.status \in {SUCCESS, FATAL_ERROR}]_vars

\* the kill is scheduled although the quit signal could be sent
C3_Witness ==
    /\ lastCall.op = "stop" /\ lastCall.status = SUCCESS
    /\ <<"run_with_delay", "kill_process", procs[Len(procs)].pid, 3>>
           = lastCall.events[2]
    /\ tasks # <<>> /\ tasks[Len(tasks)].left = 3

\* C4: at most one capture process launched by the manager is alive.
C4_AtMostOneAlive ==
    Cardinality({i \in 1..Len(procs) : Alive(procs[i])}) <= 1

\* C5: a capture process that was Recording when stop_recording was called
\* is eventually no longer running, given a fair scheduler.
C5_StoppedEventuallyDead ==
    \A i \in 1..MaxLaunch :
        (i <= Len(procs) /\ procs[i].stopped)
            ~> (i <= Len(procs) /\ ~Alive(procs[i]))

\* the quit signal could not be sent and the forced kill ended the process
C5_Witness ==
    /\ process # 0 /\ procs[process].stopped
    /\ procs[process].st = "killed"

\* the _apply_pipe calls among the collaborators called
PipeCalls(events) == SelectSeq(events, LAMBDA e : e[1] = "_apply_pipe")

\* C15: a stop_recording call on a Recording session whose quit signal is
\* reported sent leaves no handle, returns SUCCESS and calls _apply_pipe
\* once, with the path and file name of the latest successful
\* start_recording: the pair a successful start records and nothing else
\* changes; no other call, and no other outcome, calls _apply_pipe.
C15_StopSuccessPostprocessesOnce ==
    [][/\ (IsCall("stop") /\ Recording /\ lastCall'.status = SUCCESS) =>
             /\ process' = 0
             /\ PipeCalls(lastCall'.events)
                    = << <<"_apply_pipe", last_processed_path,
                           last_processed_file>> >>
       /\ (IsCall("start") /\ lastCall'.status = SUCCESS) =>
             /\ last_processed_path' = lastCall'.events[1][2]
             /\ last_processed_file' = lastCall'.events[1][3]
       /\ ~(IsCall("start") /\ lastCall'.status = SUCCESS) =>
             /\ last_processed_path' = last_processed_path
             /\ last_processed_file' = last_processed_file
       /\ ~(IsCall("stop") /\ Recording /\ lastCall'.status = SUCCESS) =>
             PipeCalls(lastCall'.events) = <<>>]_vars

\* the second recording, of f2 in p2, has been stopped and post-processed
C15_Witness ==
    /\ lastCall.op = "stop" /\ lastCall.status = SUCCESS
    /\ process = 0 /\ Len(procs) = 2
    /\ PipeCalls(lastCall.events) = << <<"_apply_pipe", "p2", "f2">> >>

\* C16: a stop_recording call on a Recording session whose quit signal
\* could not be sent returns FATAL_ERROR, keeps the handle it held, does not
\* call _apply_pipe, and the forced kill of the process identifier is on
\* the schedule afterwards; no manager call takes a kill off the schedule.
C16_StopFailureKeepsHandle ==
    [][/\ (IsCall("stop") /\ Recording /\ lastCall'.status = FATAL_ERROR) =>
             /\ process' = process
             /\ procs'[process].st = "running"
             /\ PipeCalls(lastCall'.events) = <<>>
             /\ tasks' = Append(tasks, [pid |-> procs[process].pid,
                                        left |-> 3])
       /\ (IsCall("stop") \/ IsCall("start")) =>
             /\ Len(tasks') >= Len(tasks)
             /\ SubSeq(tasks', 1, Len(tasks)) = tasks]_vars

\* the quit signal could not be sent: handle kept, kill on the schedule
C16_Witness ==
    /\ lastCall.op = "stop" /\ lastCall.status = FATAL_ERROR
    /\ process # 0 /\ procs[process].st = "running"
    /\ tasks # <<>>
    /\ tasks[Len(tasks)] = [pid |-> procs[process].pid, left |-> 3]

\* C17: a start_recording(path, filename) call on a session that is not
\* Recording either fails to launch: it returns FATAL_ERROR, the session is
\* not active afterwards, no process is added and last_processed_path and
\* last_processed_file are as before; or launches: it returns SUCCESS, the
\* handle is the new, running process and last_processed_path and
\* last_processed_file are the arguments.
C17_StartOutcomes ==
    [][\A t \in Targets :
          (/\ IsCall("start") /\ ~Recording
           /\ lastCall'.events = << <<"execute_command", t[1], t[2]>> >>) =>
              \/ /\ lastCall'.status = FATAL_ERROR
                 /\ process' = 0
                 /\ procs' = procs
                 /\ last_processed_path' = last_processed_path
                 /\ last_processed_file' = last_processed_file
              \/ /\ lastCall'.status = SUCCESS
                 /\ procs' # procs
                 /\ process' = Len(procs')
                 /\ procs'[process'].st = "running"
                 /\ last_processed_path' = t[1]
                 /\ last_processed_file' = t[2]]_vars

\* f2 could not be launched after f1 had been recorded
C17_Witness ==
    /\ lastCall.op = "start" /\ lastCall.status = FATAL_ERROR
    /\ lastCall.events = << <<"execute_command", "p2", "f2">> >>
    /\ process = 0
    /\ last_processed_path = "p1" /\ last_processed_file = "f1"

\* thread c leaves start_recording in this step, having passed the test
Launches(c) == callers[c].pc = "checked" /\ callers'[c].pc = "out"

\* C21: the launch of start_recording does not look at the session again:
\* whatever has happened since its thread passed the is_active() test, it
\* either launches a process and makes it the handle, leaving every process
\* launched before as it was, or fails to launch; and stop_recording
\* touches the process of the handle only. So two threads can both pass the
\* test on an Idle session and both launch, and the handle is then the
\* later process only.
C21_LaunchAfterStaleCheck ==
    [][/\ \A c \in Callers :
             Launches(c) =>
                 \/ /\ lastCall'.status = SUCCESS
                    /\ Len(procs') = Len(procs) + 1
                    /\ SubSeq(procs', 1, Len(procs)) = procs
                    /\ process' = Len(procs')
                 \/ /\ lastCall'.status = FATAL_ERROR
                    /\ lastCall'.events # <<>>
                    /\ procs' = procs
       /\ IsCall("stop") =>
             \A i \in 1..Len(procs) : i # process => procs'[i] = procs[i]]_vars

\* both threads have launched: two capture processes run, neither has been
\* stopped, and the handle is the second one
C21_Witness ==
    /\ Len(procs) = 2
    /\ procs[1].st = "running" /\ ~procs[1].stopped
    /\ procs[2].st = "running" /\ ~procs[2].stopped
    /\ process = 2
    /\ callers = NoCallers

\* C22: a forced kill ends only a capture process that a stop_recording
\* call was stopping: every capture process that was killed had been
\* Recording when stop_recording was called.
C22_KilledWereStopped ==
    \A i \in 1..Len(procs) : procs[i].st = "killed" => procs[i].stopped

\* the handle is of a capture process that exited on its own
ExitedOnItsOwn == /\ process # 0
                  /\ procs[process].st = "exited"
                  /\ ~procs[process].stopped

\* C23: once the capture process of the handle has exited on its own, the
\* session is not active; a start_recording call is then accepted (the
\* launch is made, and a process launched becomes the handle) and a
\* stop_recording call returns SUCCESS, drops the handle, sends no signal,
\* schedules no kill and runs no post-processing.
C23_ExitedProcessMeansIdle ==
    [][ExitedOnItsOwn =>
          /\ ~is_active
          /\ IsCall("start") =>
                /\ Len(lastCall'.events) = 1
                /\ lastCall'.events[1][1] = "execute_command"
                /\ lastCall'.status = SUCCESS =>
                      /\ process' = Len(procs) + 1
                      /\ procs'[process'].st = "running"
                /\ lastCall'.status # SUCCESS => process' = 0
          /\ IsCall("stop") =>
                /\ lastCall'.status = SUCCESS
                /\ process' = 0
                /\ lastCall'.events = <<>>
                /\ tasks' = tasks
                /\ procs' = procs]_vars

\* the only capture process exited on its own and stop_recording was called
C23_Witness ==
    /\ lastCall.op = "stop" /\ lastCall.status = SUCCESS
    /\ lastCall.events = <<>>
    /\ process = 0 /\ tasks = <<>>
    /\ Len(procs) = 1 /\ procs[1].st = "exited" /\ ~procs[1].stopped

(***************************************************************************)
(* Claims about the aggregator                                             *)
(***************************************************************************)
\* the SubStep is flagged valid and both its files are on disk
Processed(substep) == /\ substep.is_videos_ok
                      /\ substep.screencast_on_disk
                      /\ substep.camera_on_disk

\* the offsets map once the first i SubSteps have been walked
OffsetsAfter(i) ==
    IF i = Len(substeps)
    THEN aggOut[1].sync_offsets
    ELSE get_target_step_files(SubSeq(substeps, 1, i)).sync_offsets

\* map d with the one entry key: val set and nothing else touched
OneEntrySet(before, after, key, val) ==
    /\ DictHas(after, key) /\ DictGet(after, key) = val
    /\ DictKeys(after) = DictKeys(before) \cup {key}
    /\ \A k \in DictKeys(before) \ {key} :
           DictGet(after, k) = DictGet(before, k)

\* C6: walking a valid SubStep sets exactly one entry of the offsets map:
\* the screen filename's when the offset is positive, the professor
\* filename's when it is zero or negative, and not the other one's.
C6_OneOffsetEntryBySign ==
    aggOut # <<>> =>
        \A i \in 1..Len(substeps) :
            LET sub == substeps[i]
                before == OffsetsAfter(i - 1)
                after == OffsetsAfter(i)
            IN  Processed(sub) =>
                  /\ sub.sync_offset > 0 =>
                        OneEntrySet(before, after, "screen" \o sub.name,
                                    sub.sync_offset)
                  /\ sub.sync_offset <= 0 =>
                        OneEntrySet(before, after, "prof" \o sub.name,
                                    0 - sub.sync_offset)

\* a Step with a positive, and then a zero, offset has been aggregated
C6_Witness ==
    /\ aggOut # <<>> /\ Len(substeps) = 2
    /\ Processed(substeps[1]) /\ substeps[1].sync_offset > 0
    /\ Processed(substeps[2]) /\ substeps[2].sync_offset = 0
    /\ substeps[1].name # substeps[2].name
    /\ Len(aggOut[1].sync_offsets) = 2

\* C13: every value of the offsets map returned by get_target_step_files is
\* the magnitude of the signed offset of a walked SubStep, so it is not
\* negative; the Step with valid SubSteps A (+120) and B (-50) aggregates to
\* screen files [screenA, screenB], professor files [profA, profB] and
\* offsets {screenA: 120, profB: 50}.
C13_OffsetsAreMagnitudes ==
    aggOut # <<>> =>
        /\ \A e \in 1..Len(aggOut[1].sync_offsets) :
               LET key == aggOut[1].sync_offsets[e][1]
                   val == aggOut[1].sync_offsets[e][2]
               IN  /\ val >= 0
                   /\ \E i \in 1..Len(substeps) :
                          /\ Processed(substeps[i])
                          /\ key \in {"screen" \o substeps[i].name,
                                      "prof" \o substeps[i].name}
                          /\ val \in {substeps[i].sync_offset,
                                      0 - substeps[i].sync_offset}
        /\ substeps = StepAB =>
               /\ aggOut[1].screen_files = <<"screenA", "screenB">>
               /\ aggOut[1].prof_files = <<"profA", "profB">>
               /\ aggOut[1].sync_offsets
                      = << <<"screenA", 120>>, <<"profB", 50>> >>

\* the Step with SubSteps A (+120) and B (-50) has been aggregated
C13_Witness ==
    /\ aggOut # <<>> /\ substeps = StepAB
    /\ Len(aggOut[1].sync_offsets) = 2

(***************************************************************************)
(* Claims about the command builder                                        *)
(***************************************************************************)
\* the piece that opens an include directive
IncludeMark == " //@include '"

Occurrences(text, piece) == Cardinality({i \in 1..Len(text) : text[i] = piece})

RECURSIVE Flatten(_)
Flatten(texts) == IF texts = <<>> THEN <<>>
                  ELSE texts[1] \o Flatten(Tail(texts))

\* this step is a call of append_script_including
IsIncludeCall == /\ builder_log'.ops = builder_log.ops + 1
                 /\ builder_log'.last = "include"

\* C7: after one append_script_including call, made at any place among the
\* appends, and a single, final build(), the command holds the directive
\* once, after every appended statement and followed by the closing quote
\* only; with no append_script_including call it holds no directive.
C7_IncludeDirectiveLast ==
    (builder_log.last = "build" /\ builder_log.builds = 1) =>
        LET text == builder_log.built[1]
            n == Len(text)
        IN  /\ Len(builder_log.include_at) = 1 =>
                  /\ Occurrences(text, IncludeMark) = 1
                  /\ n >= 6
                  /\ text[n - 3] = IncludeMark
                  /\ text[n - 1] = "'"
                  /\ text[n] = "\""
                  /\ SubSeq(text, 3, n - 4) = Flatten(builder_log.appended)
            /\ builder_log.include_at = <<>> =>
                  Occurrences(text, IncludeMark) = 0

\* append_script_including was the first call, two appends and build() followed
C7_Witness ==
    /\ builder_log.last = "build" /\ builder_log.builds = 1
    /\ builder_log.include_at = <<1>>
    /\ Len(builder_log.appended) = 2

\* C8: a second append_script_including call raises, whatever the two paths,
\* and leaves the command text and the recorded directive as they were.
C8_SecondIncludeRejected ==
    [][(IsIncludeCall /\ builder_log.include_at # <<>>) =>
          /\ builder'.exc # None
          /\ builder'.base_command = builder.base_command
          /\ builder'.script_to_include = builder.script_to_include]_vars

\* the second call raised although the first one gave the empty path
C8_Witness ==
    /\ builder # <<>>
    /\ builder.exc # None
    /\ Len(builder_log.include_at) = 2
    /\ builder.script_to_include[2] = ""

\* the text that a sequence of pieces spells
RECURSIVE Text(_)
Text(pieces) == IF pieces = <<>> THEN "" ELSE pieces[1] \o Text(Tail(pieces))

\* the items, each between quotes, with ", " between two of them
RECURSIVE QuotedItems(_)
QuotedItems(items) ==
    IF items = <<>> THEN ""
    ELSE "'" \o items[1] \o "'"
         \o (IF Len(items) > 1 THEN ", " ELSE "")
         \o QuotedItems(Tail(items))

\* this step is a call of append_const_array(const_name, const_values)
IsConstArrayCall(const_name, const_values) ==
    /\ builder_log'.ops = builder_log.ops + 1
    /\ builder_log'.last = "append"
    /\ builder' = append_const_array(Self, const_name, const_values)

\* C14: append_const_array(name, values) appends one statement declaring
\* name: with the literal [] when values is empty, and else with an array
\* literal of the items of values, one element each, in their order.
C14_ConstArrayLiteral ==
    [][\A values \in ArrayValues :
          IsConstArrayCall("screenVideos", values) =>
              LET log == builder_log'.appended
                  statement == Text(log[Len(log)])
              IN  /\ Len(log) = Len(builder_log.appended) + 1
                  /\ values = <<>> =>
                         statement = " const screenVideos = [];"
                  /\ values # <<>> =>
                         statement = " const screenVideos = ["
                                        \o QuotedItems(values) \o "];"]_vars

\* the empty list has been appended as an array constant
C14_Witness ==
    /\ builder_log.last = "append"
    /\ builder_log.appended # <<>>
    /\ builder_log.appended[Len(builder_log.appended)]
           = <<" const ", "screenVideos", " = ", "[]", ";">>

\* C24: whatever calls were made on the builder, build() more than once
\* among them, the text that build() returns holds the include directive
\* at most once, and then as its last statement, before the closing quote.
C24_BuildRepeatable ==
    builder_log.built # <<>> =>
        LET text == builder_log.built[1]
            n == Len(text)
        IN  /\ Occurrences(text, IncludeMark) <= 1
            /\ Occurrences(text, IncludeMark) = 1 =>
                   n >= 4 /\ text[n - 3] = IncludeMark

\* the text without its include directives
RECURSIVE StripIncludes(_)
StripIncludes(text) ==
    IF text = <<>> THEN <<>>
    ELSE IF text[1] = IncludeMark /\ Len(text) >= 3
    THEN StripIncludes(SubSeq(text, 4, Len(text)))
    ELSE <<text[1]>> \o StripIncludes(Tail(text))

\* where the piece stands in the text
Pos(text, piece) == CHOOSE i \in 1..Len(text) : text[i] = piece

\* what opens, or names, each statement of the command of an export
CommandOrder ==
    <<"app.openDocument(", "outputName", "basePath", "presetPath",
      "screenVideos", "professorVideos", "needSync", "markerTimes",
      "syncOffsets", IncludeMark>>

\* C25: the text returned by build() holds, its include directives left
\* out, the statements of the append calls in the order of the calls; and
\* the command that build_ppro_command builds holds ten statements, in the
\* order open document, outputName, basePath, presetPath, screenVideos,
\* professorVideos, needSync, markerTimes, syncOffsets, include directive,
\* each once.
C25_StatementsInCallOrder ==
    /\ (builder_log.last = "build") =>
           LET stripped == StripIncludes(builder_log.built[1])
           IN  SubSeq(stripped, 3, Len(stripped) - 1)
                   = Flatten(builder_log.appended)
    /\ (exported # <<>> /\ exported[1].command # <<>>) =>
           LET command == exported[1].command
           IN  /\ \A k \in 1..Len(CommandOrder) :
                      Occurrences(command, CommandOrder[k]) = 1
               /\ \A k \in 1..(Len(CommandOrder) - 1) :
                      Pos(command, CommandOrder[k])
                          < Pos(command, CommandOrder[k + 1])
               /\ Occurrences(command, " const ") = 5
               /\ Occurrences(command, " var ") = 3
               /\ Pos(command, "app.openDocument(") = 3
               /\ Pos(command, IncludeMark) = Len(command) - 3

\* a command has been built for an export, and a caller has built a text
\* of three appended statements
C25_Witness ==
    /\ exported # <<>> /\ exported[1].command # <<>>
    /\ builder_log.last = "build"
    /\ Len(builder_log.appended) = 3
    /\ builder_log.appended[1] # builder_log.appended[2]

(***************************************************************************)
(* Claims about the export orchestrator                                    *)
(***************************************************************************)
Called(what) == \E i \in 1..Len(exported[1].calls) :
                    exported[1].calls[i] = what

\* C9: with the required file present and the editing tool found running,
\* export_obj_to_prproj returns FATAL_ERROR and calls neither the file
\* extractor, nor the command builder, nor execute_command_sync.
C9_ToolRunningAbortsEarly ==
    (/\ exported # <<>>
     /\ env.ADOBE_PPRO_PATH # <<>>
     /\ env.required_file_on_disk
     /\ env.ppro_running) =>
        /\ ~exported[1].raised
        /\ exported[1].status = FATAL_ERROR
        /\ ~Called("files_extractor")
        /\ ~Called("build_ppro_command")
        /\ ~Called("execute_command_sync")

\* everything else would let the export through
C9_Witness ==
    /\ exported # <<>>
    /\ env.ADOBE_PPRO_PATH # <<>> /\ env.ADOBE_PPRO_PATH[1] # <<>>
    /\ env.required_file_on_disk /\ env.ppro_running
    /\ ~env.extractor.raised
    /\ env.extractor.files.screen_files # <<>>
    /\ env.extractor.files.prof_files # <<>>
    /\ env.template_on_disk /\ env.preset_on_disk /\ env.exit_code = 0
    /\ exported[1].status = FATAL_ERROR

\* C10: when the file extractor returns an empty screen filename sequence
\* or an empty professor filename sequence, export_obj_to_prproj returns
\* FATAL_ERROR and does not call execute_command_sync.
C10_EmptyFilesAbort ==
    (/\ exported # <<>>
     /\ Called("files_extractor")
     /\ ~env.extractor.raised
     /\ \/ env.extractor.files.screen_files = <<>>
        \/ env.extractor.files.prof_files = <<>>) =>
        /\ ~exported[1].raised
        /\ exported[1].status = FATAL_ERROR
        /\ ~Called("execute_command_sync")

\* only the professor sequence is empty, and the tool would have run
C10_Witness ==
    /\ exported # <<>>
    /\ Called("files_extractor") /\ ~env.extractor.raised
    /\ env.extractor.files.screen_files # <<>>
    /\ env.extractor.files.prof_files = <<>>
    /\ env.ADOBE_PPRO_PATH[1] # <<>>
    /\ env.template_on_disk /\ env.preset_on_disk /\ env.exit_code = 0
    /\ exported[1].status = FATAL_ERROR

\* C11: whatever its collaborators do, export_obj_to_prproj ends by
\* returning a result with a status; no exception leaves it.
C11_NoExceptionEscapes ==
    exported # <<>> =>
        /\ ~exported[1].raised
        /\ exported[1].status \in {SUCCESS, FATAL_ERROR}

(***************************************************************************)
(* Claims about Lessons and Courses                                        *)
(***************************************************************************)
\* the Course without the Lessons whose directory is absent
WithoutAbsent(course) ==
    [course EXCEPT !.lessons = SelectSeq(@, LAMBDA l : l.dir_on_disk)]

\* C12: a Lesson whose directory is absent aggregates to four empty
\* structures and no query is made for its Steps or SubSteps; so does a
\* Course whose directory is absent; and a Course whose directory is there
\* aggregates as if its Lessons with an absent directory were not in it.
C12_AbsentDirectoryIsEmpty ==
    hierOut # <<>> =>
        LET of == hierOut[1].of
            out == hierOut[1].out
        IN  /\ (of = "lesson"
                  /\ ~course_obj.lessons[hierOut[1].at].dir_on_disk) =>
                  Files(out) = EmptyFiles /\ out.queried = <<>>
            /\ (of = "course" /\ ~course_obj.dir_on_disk) =>
                  Files(out) = EmptyFiles /\ out.queried = <<>>
            /\ (of = "course" /\ course_obj.dir_on_disk) =>
                  /\ out = get_target_course_files(WithoutAbsent(course_obj))
                  /\ Len(SelectSeq(out.queried,
                                   LAMBDA q : q = "Step.objects.filter"))
                       = Len(WithoutAbsent(course_obj).lessons)

\* a Course aggregated whose first Lesson has Steps with files but no
\* directory, and whose second Lesson has both
C12_Witness ==
    /\ hierOut # <<>> /\ hierOut[1].of = "course"
    /\ course_obj.dir_on_disk /\ Len(course_obj.lessons) = 2
    /\ ~course_obj.lessons[1].dir_on_disk
    /\ course_obj.lessons[1].steps = <<StepAB>>
    /\ course_obj.lessons[2].dir_on_disk
    /\ course_obj.lessons[2].steps = <<StepCD>>
    /\ hierOut[1].out.screen_files = <<"screenC">>

\* build_ppro_command raises in this environment, and why
BuildRaises(message) ==
    \/ /\ message = "Adobe PremierePro configuration is missing."
       /\ env.ADOBE_PPRO_PATH[1] = <<>>
    \/ /\ message = "Template of PremierPro project is missing."
       /\ env.ADOBE_PPRO_PATH[1] # <<>>
       /\ ~env.template_on_disk
    \/ /\ message = ".sqpreset sequence template file is missing."
       /\ env.ADOBE_PPRO_PATH[1] # <<>>
       /\ env.template_on_disk /\ ~env.preset_on_disk

BuildMessages == {"Adobe PremierePro configuration is missing.",
                  "Template of PremierPro project is missing.",
                  ".sqpreset sequence template file is missing."}

\* C18: when build_ppro_command raises (no tool path configured, no
\* template project file, no sequence preset file), export_obj_to_prproj
\* returns FATAL_ERROR with the message of the exception and does not call
\* execute_command_sync.
C18_BuildExceptionCaught ==
    (exported # <<>> /\ Called("build_ppro_command")) =>
        \A message \in BuildMessages :
            BuildRaises(message) =>
                /\ ~exported[1].raised
                /\ exported[1].status = FATAL_ERROR
                /\ exported[1].message = message
                /\ ~Called("execute_command_sync")

\* the build was reached and found no sequence preset file
C18_Witness ==
    /\ exported # <<>> /\ Called("build_ppro_command")
    /\ BuildRaises(".sqpreset sequence template file is missing.")
    /\ exported[1].status = FATAL_ERROR

\* C19: once the command has been executed, export_obj_to_prproj returns
\* SUCCESS when the tool exited with 0 or 1 and FATAL_ERROR with any other
\* exit code; the command is executed once, in no export more than once.
C19_ExitCodeDecides ==
    exported # <<>> =>
        /\ Occurrences(exported[1].calls, "execute_command_sync") <= 1
        /\ Called("execute_command_sync") =>
              /\ ~exported[1].raised
              /\ env.exit_code \in {0, 1} => exported[1].status = SUCCESS
              /\ env.exit_code \notin {0, 1} =>
                    exported[1].status = FATAL_ERROR

\* the tool exited with 1 and the export succeeded
C19_Witness ==
    /\ exported # <<>> /\ Called("execute_command_sync")
    /\ env.exit_code = 1
    /\ exported[1].status = SUCCESS

\* the stages that call a collaborator, in their order
Stages == <<"isfile", "process_with_name_exists", "files_extractor",
            "build_ppro_command", "execute_command_sync">>

\* C20: the collaborators are called in the order required file test, tool
\* process probe, file extractor, command builder, command execution, each
\* only after all the ones before it; the command is executed only with the
\* required file there, no tool running, both file sequences non-empty and
\* a build that raised nothing; and when the test finds the required file
\* missing, FATAL_ERROR is returned with no other collaborator called.
C20_StagesInOrder ==
    exported # <<>> =>
        /\ Len(exported[1].calls) <= Len(Stages)
        /\ exported[1].calls = SubSeq(Stages, 1, Len(exported[1].calls))
        /\ Called("execute_command_sync") =>
              /\ env.required_file_on_disk
              /\ ~env.ppro_running
              /\ env.extractor.files.screen_files # <<>>
              /\ env.extractor.files.prof_files # <<>>
              /\ \A message \in BuildMessages : ~BuildRaises(message)
        /\ (Called("isfile") /\ ~env.required_file_on_disk) =>
              /\ exported[1].status = FATAL_ERROR
              /\ exported[1].calls = <<"isfile">>

\* the required file is missing and everything else would let the export
\* through
C20_Witness ==
    /\ exported # <<>>
    /\ ~env.required_file_on_disk /\ ~env.ppro_running
    /\ env.ADOBE_PPRO_PATH # <<>> /\ env.ADOBE_PPRO_PATH[1] # <<>>
    /\ ~env.extractor.raised
    /\ env.extractor.files.screen_files # <<>>
    /\ env.extractor.files.prof_files # <<>>
    /\ env.template_on_disk /\ env.preset_on_disk /\ env.exit_code = 0
    /\ exported[1].calls = <<"isfile">>

(***************************************************************************)
(* Claims about the aggregates of Steps, Lessons and Courses               *)
(***************************************************************************)
\* the SubSteps of the Steps of a Lesson whose directory is there, in the
\* order of the Steps
LessonSubSteps(lesson) ==
    IF lesson.dir_on_disk THEN Flatten(lesson.steps) ELSE <<>>

\* the SubSteps walked for the object that was aggregated, in traversal order
Walked ==
    LET of == hierOut[1].of
        at == hierOut[1].at
    IN  IF of = "step" THEN course_obj.lessons[at[1]].steps[at[2]]
        ELSE IF of = "lesson" THEN LessonSubSteps(course_obj.lessons[at])
        ELSE IF course_obj.dir_on_disk
        THEN Flatten([i \in 1..Len(course_obj.lessons) |->
                         LessonSubSteps(course_obj.lessons[i])])
        ELSE <<>>

\* the walked SubSteps that are flagged valid and have both files on disk
Valid == SelectSeq(Walked, Processed)

\* the items of a sequence
Range(seq) == {seq[i] : i \in 1..Len(seq)}

\* the computations logged among the queries
Computations(queried) ==
    SelectSeq(queried, LAMBDA q : /\ q # "SubStep.objects.filter"
                                  /\ q # "Step.objects.filter"
                                  /\ q # "Lesson.objects.filter")

\* C26: in the aggregate of a Step, a Lesson or a Course the screen and the
\* professor filename sequences are as long as there are walked SubSteps
\* that are flagged valid with both files on disk; place i of both holds
\* the names of the i-th of these in traversal order; every key of the two
\* maps is a name of one of them, and markers and offset are computed for
\* these only, once each, in that order.
C26_ParallelSequences ==
    hierOut # <<>> =>
        LET out == hierOut[1].out
        IN  /\ Len(out.screen_files) = Len(Valid)
            /\ Len(out.prof_files) = Len(Valid)
            /\ \A i \in 1..Len(Valid) :
                   /\ out.screen_files[i] = "screen" \o Valid[i].name
                   /\ out.prof_files[i] = "prof" \o Valid[i].name
            /\ \A key \in DictKeys(out.marker_times) :
                   \E i \in 1..Len(Valid) : key = "screen" \o Valid[i].name
            /\ \A key \in DictKeys(out.sync_offsets) :
                   \E i \in 1..Len(Valid) :
                       key \in {"screen" \o Valid[i].name,
                                "prof" \o Valid[i].name}
            /\ Computations(out.queried)
                   = Flatten([i \in 1..Len(Valid) |->
                                 <<"get_sync_offset " \o Valid[i].name,
                                   "get_diff_times " \o Valid[i].name>>])

\* a Course of two Lessons, of the Steps AB, CD and of the Step CD, has been
\* aggregated: D is skipped twice
C26_Witness ==
    /\ hierOut # <<>> /\ hierOut[1].of = "course"
    /\ course_obj.dir_on_disk /\ Len(course_obj.lessons) = 2
    /\ course_obj.lessons[1] = [dir_on_disk |-> TRUE,
                                steps |-> <<StepAB, StepCD>>]
    /\ course_obj.lessons[2] = [dir_on_disk |-> TRUE, steps |-> <<StepCD>>]
    /\ hierOut[1].out.screen_files
           = <<"screenA", "screenB", "screenC", "screenC">>

\* C27: in the aggregate of a Step, a Lesson or a Course the keys of the
\* marker map are the screen filenames of the sequence, and every key of
\* the offsets map is a filename of one of the two sequences; when no two
\* valid SubSteps walked share a name, both maps have as many entries as
\* there are valid SubSteps walked.
C27_MapKeysAreFilenames ==
    hierOut # <<>> =>
        LET out == hierOut[1].out
        IN  /\ DictKeys(out.marker_times) = Range(out.screen_files)
            /\ DictKeys(out.sync_offsets)
                   \subseteq Range(out.screen_files) \cup Range(out.prof_files)
            /\ (\A i, j \in 1..Len(Valid) :
                    Valid[i].name = Valid[j].name => i = j) =>
                   /\ Len(out.marker_times) = Len(Valid)
                   /\ Len(out.sync_offsets) = Len(Valid)

\* a Course of two Lessons, of the Step AB and of the Step CD, has been
\* aggregated: three valid SubSteps, no name twice
C27_Witness ==
    /\ hierOut # <<>> /\ hierOut[1].of = "course"
    /\ course_obj.dir_on_disk /\ Len(course_obj.lessons) = 2
    /\ course_obj.lessons[1] = [dir_on_disk |-> TRUE, steps |-> <<StepAB>>]
    /\ course_obj.lessons[2] = [dir_on_disk |-> TRUE, steps |-> <<StepCD>>]
    /\ Len(hierOut[1].out.marker_times) = 3
    /\ Len(hierOut[1].out.sync_offsets) = 3

=============================================================================
